---- MODULE Spec2Model ----
(***************************************************************************)
(* Model of libavformat/unix_y.c, the "unix-y" URL protocol: a stream      *)
(* (UnixYContext) that keeps one control connection, opens a data          *)
(* connection lazily, and proves session membership on every connection    *)
(* with a new_session / run_session line.                                  *)
(*                                                                         *)
(* Bytes are one-character strings; "NUL" stands for the byte '\0'.        *)
(* Return values and errno are integers, errors are AVERROR(e) = -e, as    *)
(* in the C code, so that every "ret < 0" test means what it means there.  *)
(***************************************************************************)
EXTENDS Integers, Sequences, FiniteSets, TLC

\* ------------------------------------------------------------------ bounds

\* positions are kept within -MaxPos .. MaxPos
MaxPos == 2
\* seek offsets are drawn from -MaxOff .. MaxOff
MaxOff == 1
\* read and write are called with a size in 1 .. MaxSize
MaxSize == 2
\* at most MaxSessions session ids are minted in one run
MaxSessions == 2
\* a send script holds at most MaxSends results of send()
MaxSends == 2
\* a short send accepts 1 .. MaxChunk bytes
MaxChunk == 1
\* at most MaxRx unread bytes are left on the control connection by a call
MaxRx == 1
\* a stat reply is evaluated when its number has at most MaxStatDigits digits
\* behind its leading zeros
MaxStatDigits == 3
\* the round trip is made at an offset in 0 .. MaxRtOff
MaxRtOff == 2
\* with 1 .. MaxRtLen bytes
MaxRtLen == 2

\* -------------------------------------------------------- program constants

\* size of cmd_buf / rep_buf, the cap handed to read_str_until
CmdBufSize == 50
\* the timeout that replaces a negative option value
DefaultTimeout == 3000
\* AVERROR_EOF = FFERRTAG('E','O','F',' ')
AVERROR_EOF == -541478725
EPERM == 1
EINVAL == 22
EMFILE == 24
ENETDOWN == 100
ECONNRESET == 104
ECONNREFUSED == 111
\* AVIO_FLAG_READ, the bit unix_y_open keeps of its flags
AVIO_FLAG_READ == 1

AVERROR(e) == -e

\* ------------------------------------------------------------------ strings

NUL == "NUL"
LF == "\n"

DigitChar == <<"0", "1", "2", "3", "4", "5", "6", "7", "8", "9">>

DigitVal(ch) == CHOOSE d \in 0..9 : DigitChar[d + 1] = ch

IsDigit(ch) == \E d \in 0..9 : DigitChar[d + 1] = ch

\* isspace() of the C locale, over the bytes of the model
IsSpace(ch) == ch \in {" ", "\n", "\t", "\r"}

RECURSIVE Digits(_)
Digits(n) == IF n < 10 THEN <<DigitChar[n + 1]>>
             ELSE Digits(n \div 10) \o <<DigitChar[(n % 10) + 1]>>

\* sprintf("%d") / sprintf("%" PRId64)
itoa(n) == IF n < 0 THEN <<"-">> \o Digits(-n) ELSE Digits(n)

RECURSIVE Rep(_, _)
Rep(ch, n) == IF n <= 0 THEN <<>> ELSE <<ch>> \o Rep(ch, n - 1)

S_run_session == <<"r", "u", "n", "_", "s", "e", "s", "s", "i", "o", "n", " ">>
S_new_session_read == <<"n", "e", "w", "_", "s", "e", "s", "s", "i", "o", "n", " ", "r", "e", "a", "d", " ">>
S_new_session_write == <<"n", "e", "w", "_", "s", "e", "s", "s", "i", "o", "n", " ", "w", "r", "i", "t", "e", " ">>
S_read == <<"r", "e", "a", "d", " ">>
S_write == <<"w", "r", "i", "t", "e", " ">>
S_stat == <<"s", "t", "a", "t", LF>>
S_ok == <<"o", "k">>

\* sprintf(cmd, "run_session %d\n", id)
RunSessionCmd(id) == S_run_session \o itoa(id) \o <<LF>>

\* sprintf(cmd, "new_session read %d\n", id) / "new_session write %d\n"
NewSessionCmd(reading, id) ==
    (IF reading # 0 THEN S_new_session_read ELSE S_new_session_write) \o itoa(id) \o <<LF>>

\* sprintf(cmd_buf, "read %" PRId64 "\n", pos) / "write ..."
OffsetCmd(word, p) == word \o itoa(p) \o <<LF>>

\* The C string that starts at buf[0]: the bytes before the first NUL. A buffer
\* that holds no NUL is read on into the memory behind it, `beyond`.
RECURSIVE strlen_from(_, _)
strlen_from(mem, i) ==
    IF i > Len(mem) \/ mem[i] = NUL THEN i - 1 ELSE strlen_from(mem, i + 1)

CStr(buf, beyond) == LET mem == buf \o beyond IN SubSeq(mem, 1, strlen_from(mem, 1))

\* strcmp(buf, lit) == 0 for a literal without NUL
strcmp_eq(buf, lit) ==
    /\ Len(buf) >= Len(lit) + 1
    /\ \A i \in 1..Len(lit) : buf[i] = lit[i]
    /\ buf[Len(lit) + 1] = NUL

\* strtoll(buf, NULL, 10) of a C string: white space, an optional sign, digits.
\* conv tells whether any digit was converted, big that the digits run past
\* MaxStatDigits (the value is then not computed).
RECURSIVE SkipSpace(_)
SkipSpace(s) == IF s # <<>> /\ IsSpace(Head(s)) THEN SkipSpace(Tail(s)) ELSE s

RECURSIVE ParseDigits(_, _, _, _)
ParseDigits(s, i, acc, n) ==
    IF i <= Len(s) /\ IsDigit(s[i])
    THEN IF n >= MaxStatDigits /\ acc # 0 THEN [val |-> 0, conv |-> TRUE, big |-> TRUE]
         ELSE ParseDigits(s, i + 1, acc * 10 + DigitVal(s[i]), n + 1)
    ELSE [val |-> acc, conv |-> n > 0, big |-> FALSE]

strtoll(s) ==
    LET t == SkipSpace(s)
        neg == t # <<>> /\ Head(t) = "-"
        u == IF t # <<>> /\ Head(t) \in {"-", "+"} THEN Tail(t) ELSE t
        r == ParseDigits(u, 1, 0, 0)
    IN  [val |-> IF neg THEN -r.val ELSE r.val, conv |-> r.conv, big |-> r.big]

\* ------------------------------------------------------------- environment

Min(a, b) == IF a < b THEN a ELSE b

\* errno a failing send()/recv() leaves
NetErrnos == {ECONNRESET}

\* What successive calls of send() return: n > 0 bytes accepted, 0, or -errno.
\* When the script is used up the kernel accepts all that is left.
SendRets == (1..MaxChunk) \cup {0} \cup {-e : e \in NetErrnos}

SendScripts == UNION {[1..n -> SendRets] : n \in 0..MaxSends}

\* What recv() on the control connection returns once the bytes received so
\* far are used up: 0 (the peer closed) or -errno.
RecvTails == {0} \cup {-e : e \in NetErrnos}

\* Lines a server may answer with (without their newline).
ReplyLines ==
    { S_ok, <<>>, <<"o">>, <<"o", "k", NUL, "x">>, <<"n", "o">>,
      <<"2">>, <<"-", "1">>, <<"x">>,
      Rep("x", CmdBufSize - 1),
      <<"o", "k", NUL>> \o Rep("x", CmdBufSize - 3),
      <<"2">> \o Rep("x", CmdBufSize - 1),
      Rep("0", CmdBufSize - 1) \o <<"2">> }

\* The bytes that arrive on the control connection after a command: a line with
\* its newline, or a line the peer never ends.
Replies ==
    {l \o <<LF>> : l \in {m \in ReplyLines : Len(m) <= CmdBufSize - 1 \/ Head(m) = "2"}}
    \cup {l \in ReplyLines : l \in {<<>>, S_ok} \/ Len(l) >= CmdBufSize}

\* What may lie in memory behind a 50-byte buffer that was filled without a NUL
\* (reading it is undefined behaviour).
Beyond == {<<NUL>>, <<"1", NUL>>}

\* ------------------------------------------------------------------- state

VARIABLES
    h_state,         \* "Unopened" | "Open" | "Closed": what the caller did with the URLContext
    timeout,         \* UnixYContext.timeout
    control_fd,      \* UnixYContext.control_fd
    cur_fd,          \* UnixYContext.cur_fd
    reading_mode,    \* UnixYContext.reading_mode
    session_id,      \* UnixYContext.session_id
    pos,             \* UnixYContext.pos
    session_id_inc,  \* the static atomic_int of connectSocket
    open_fds,        \* descriptors of this process that are open sockets
    errno,           \* the thread's errno
    rx,              \* bytes received on the control connection and not yet read
    announced,       \* offset of the read/write command that preceded the data connection
    transferred,     \* bytes transferred on the data connection since it was opened
    thr,             \* SpecOpen2: the two threads that run unix_y_open at the same time
    rt               \* SpecRT: the caller that makes the round trip, and the server's store

vars == <<h_state, timeout, control_fd, cur_fd, reading_mode, session_id, pos,
          session_id_inc, open_fds, errno, rx, announced, transferred, thr, rt>>

\* The mutable state a handler works on, as one record; ev collects the
\* call's events (socket, connect, send, recv, close) in order.
Ctx ==
    [timeout |-> timeout, control_fd |-> control_fd, cur_fd |-> cur_fd,
     reading_mode |-> reading_mode, session_id |-> session_id, pos |-> pos,
     session_id_inc |-> session_id_inc, open_fds |-> open_fds, errno |-> errno,
     rx |-> rx, announced |-> announced, transferred |-> transferred, ev |-> <<>>]

Ev(kind, fd, data) == [ev |-> kind, fd |-> fd, data |-> data]

Log(c, kind, fd, data) == [c EXCEPT !.ev = Append(@, Ev(kind, fd, data))]

\* the lowest descriptor that is free, as socket() returns it
LowestFree(fds) == CHOOSE n \in 0..Cardinality(fds) : n \notin fds /\ \A m \in 0..(n - 1) : m \in fds

\* closesocket(fd); closing a descriptor that is not open is logged as "badclose"
closesocket(c, fd) ==
    IF fd \in c.open_fds
    THEN Log([c EXCEPT !.open_fds = @ \ {fd}], "close", fd, <<>>)
    ELSE Log(c, "badclose", fd, <<>>)

\* ff_neterrno()
ff_neterrno(c) == AVERROR(c.errno)

\* ------------------------------------------------------------ write_str

\* The loop of write_str over a script of send() results: the bytes written so
\* far, and the result (0, AVERROR(ENETDOWN) or AVERROR(errno)); err is the errno
\* a failing send() set (0: errno untouched).
RECURSIVE write_loop(_, _, _)
write_loop(len, script, write) ==
    IF ~(write < len) THEN [ret |-> 0, n |-> write, err |-> 0]
    ELSE LET ret == IF script = <<>> THEN len - write
                    ELSE IF Head(script) > 0 THEN Min(Head(script), len - write)
                    ELSE IF Head(script) = 0 THEN 0
                    ELSE -1
         IN  IF ret = 0 THEN [ret |-> AVERROR(ENETDOWN), n |-> write, err |-> 0]
             ELSE IF ret < 0
             THEN [ret |-> AVERROR(-Head(script)), n |-> write, err |-> -Head(script)]
             ELSE write_loop(len, IF script = <<>> THEN <<>> ELSE Tail(script), write + ret)

\* write_str(fd, buf, len) with len = strlen(buf), under one script
write_str(c, fd, buf, script) ==
    LET w == write_loop(Len(buf), script, 0)
        c1 == IF w.err # 0 THEN [c EXCEPT !.errno = w.err] ELSE c
    IN  [c |-> Log(c1, "send", fd, SubSeq(buf, 1, w.n)), ret |-> w.ret]

\* every way write_str can end
write_str_all(c, fd, buf) == {write_str(c, fd, buf, sc) : sc \in SendScripts}

\* -------------------------------------------------------- read_str_until

\* read_loop that leaves the terminating byte on the connection
RECURSIVE read_loop_keeps_newline(_, _, _, _, _)
read_loop_keeps_newline(in, tail, until_char, max, read) ==
    IF ~(read < max)
    THEN [ret |-> read, out |-> SubSeq(in, 1, read), nread |-> read, err |-> 0]
    ELSE IF read >= Len(in)
    THEN IF tail < 0
         THEN [ret |-> AVERROR(-tail), out |-> SubSeq(in, 1, read), nread |-> read, err |-> -tail]
         ELSE [ret |-> AVERROR_EOF, out |-> SubSeq(in, 1, read), nread |-> read, err |-> 0]
    ELSE IF in[read + 1] = until_char
    THEN [ret |-> read, out |-> Append(SubSeq(in, 1, read), NUL), nread |-> read, err |-> 0]
    ELSE read_loop_keeps_newline(in, tail, until_char, max, read + 1)

\* The loop of read_str_until over the bytes `in` the connection delivers and the
\* result `tail` of recv() once they are used up. The loop stores in[1..read] in
\* out, and a NUL behind them when it meets until_char; nread counts the bytes
\* taken from the connection.
RECURSIVE read_loop(_, _, _, _, _)
read_loop(in, tail, until_char, max, read) ==
    IF ~(read < max)
    THEN [ret |-> read, out |-> SubSeq(in, 1, read), nread |-> read, err |-> 0]
    ELSE IF read >= Len(in)
    THEN IF tail < 0
         THEN [ret |-> AVERROR(-tail), out |-> SubSeq(in, 1, read), nread |-> read, err |-> -tail]
         ELSE [ret |-> AVERROR_EOF, out |-> SubSeq(in, 1, read), nread |-> read, err |-> 0]
    ELSE IF in[read + 1] = until_char
    THEN [ret |-> read, out |-> Append(SubSeq(in, 1, read), NUL), nread |-> read + 1, err |-> 0]
    ELSE read_loop(in, tail, until_char, max, read + 1)

\* read_str_until(fd, until_char, out, max) when the peer's answer `rep` arrives
\* behind the bytes still unread
read_str_until(c, fd, until_char, max, rep, tail) ==
    LET in == c.rx \o rep
        r == read_loop(in, tail, until_char, max, 0)
        c1 == [c EXCEPT !.rx = SubSeq(in, r.nread + 1, Len(in)),
                        !.errno = IF r.err # 0 THEN r.err ELSE @]
    IN  [c |-> Log(c1, "recv", fd, SubSeq(in, 1, r.nread)), ret |-> r.ret, out |-> r.out]

\* every way read_str_until can end that leaves at most MaxRx bytes unread; the
\* result of recv() behind the bytes matters only to a call that gets there
read_str_until_all(c, fd, until_char, max) ==
    UNION {LET r == read_str_until(c, fd, until_char, max, rep, 0)
           IN  IF Len(r.c.rx) > MaxRx THEN {}
               ELSE IF r.ret # AVERROR_EOF THEN {r}
               ELSE {read_str_until(c, fd, until_char, max, rep, tail) : tail \in RecvTails} :
              rep \in Replies}

\* ------------------------------------------------------------ connectSocket

\* handshake with the test "session_id > 1" in place of "session_id > 0"
handshake_off_by_one(c, fd) ==
    IF c.session_id > 1
    THEN {IF w.ret < 0 THEN [c |-> closesocket(w.c, fd), ret |-> w.ret]
                       ELSE [c |-> w.c, ret |-> fd] :
            w \in write_str_all(c, fd, RunSessionCmd(c.session_id))}
    ELSE LET c1 == [c EXCEPT !.session_id_inc = @ + 1]
             new_session_id == c1.session_id_inc
         IN  {IF w.ret < 0 THEN [c |-> closesocket(w.c, fd), ret |-> w.ret]
                           ELSE [c |-> [w.c EXCEPT !.session_id = new_session_id], ret |-> fd] :
                w \in write_str_all(c1, fd, NewSessionCmd(c.reading_mode, new_session_id))}

\* The session part of connectSocket (lines 123-154) on the connected socket fd.
handshake(c, fd) ==
    IF c.session_id > 0
    THEN {IF w.ret < 0 THEN [c |-> closesocket(w.c, fd), ret |-> w.ret]
                       ELSE [c |-> w.c, ret |-> fd] :
            w \in write_str_all(c, fd, RunSessionCmd(c.session_id))}
    ELSE LET c1 == [c EXCEPT !.session_id_inc = @ + 1]          \* atomic_fetch_add
             new_session_id == c1.session_id_inc                 \* atomic_load
         IN  {IF w.ret < 0 THEN [c |-> closesocket(w.c, fd), ret |-> w.ret]
                           ELSE [c |-> [w.c EXCEPT !.session_id = new_session_id], ret |-> fd] :
                w \in write_str_all(c1, fd, NewSessionCmd(c.reading_mode, new_session_id))}

\* connectSocket(h): every outcome, as the context after it and the value returned
connectSocket(c) ==
    LET fd == LowestFree(c.open_fds)
        sock_failed == [c |-> Log([c EXCEPT !.errno = EMFILE], "socket", -1, <<>>),
                        ret |-> AVERROR(EMFILE)]
        c1 == Log([c EXCEPT !.open_fds = @ \cup {fd}], "socket", fd, <<>>)
        conn_failed == [c |-> closesocket(Log(c1, "connect", fd, <<"failed">>), fd),
                        ret |-> AVERROR(ECONNREFUSED)]
        c2 == Log(c1, "connect", fd, <<>>)
    IN  {sock_failed, conn_failed} \cup handshake(c2, fd)

\* ----------------------------------------------------------------- handlers

Ret(c, ret) == [c |-> c, ret |-> ret]

\* flags & AVIO_FLAG_READ
FlagsAndRead(flags) == ((flags \div AVIO_FLAG_READ) % 2) * AVIO_FLAG_READ

\* unix_y_open(h, filename, flags): every outcome
unix_y_open(c, flags) ==
    LET c0 == [c EXCEPT !.reading_mode = FlagsAndRead(flags),
                        !.session_id = -1,
                        !.timeout = IF @ < 0 THEN DefaultTimeout ELSE @]
    IN  {IF k.ret < 0 THEN Ret(k.c, k.ret)
         ELSE Ret([k.c EXCEPT !.control_fd = k.ret, !.cur_fd = -1, !.pos = 0,
                              !.rx = <<>>, !.announced = 0, !.transferred = 0], 0) :
            k \in connectSocket(c0)}

\* The offset a peer reads from the command line "<word> <offset>\n".
OffsetOf(word, line) == strtoll(SubSeq(line, Len(word) + 1, Len(line))).val

\* The block "if (s->cur_fd < 0) { ... }" of unix_y_read and unix_y_write: the
\* command <word> <pos>, the reply, the data connection. A negative ret is what
\* the handler returns from inside the block.
open_data(c, word) ==
    UNION {
      IF w.ret < 0 THEN {Ret(w.c, w.ret)}
      ELSE UNION {
        IF r.ret < 0 THEN {Ret(r.c, r.ret)}
        ELSE IF ~strcmp_eq(r.out, S_ok) THEN {Ret(r.c, AVERROR(EINVAL))}
        ELSE {IF k.ret < 0 THEN Ret(k.c, k.ret)
              ELSE Ret([k.c EXCEPT !.cur_fd = k.ret, !.transferred = 0,
                                   !.announced = OffsetOf(word, w.c.ev[Len(w.c.ev)].data)], k.ret) :
                 k \in connectSocket(r.c)} :
        r \in read_str_until_all(w.c, c.control_fd, LF, CmdBufSize)} :
      w \in write_str_all(c, c.control_fd, OffsetCmd(word, c.pos))}

\* data_recv without the test "ret == 0"
data_recv_without_eof(c, size) ==
    {Ret(Log([c EXCEPT !.pos = @ + ret, !.transferred = @ + ret], "xfer", c.cur_fd, <<ret>>), ret) :
        ret \in 0..size}
    \cup {LET c1 == Log([c EXCEPT !.errno = e], "xfer", c.cur_fd, <<-1>>)
          IN  Ret(c1, ff_neterrno(c1)) : e \in NetErrnos}

\* recv(s->cur_fd, buf, size, 0) and what unix_y_read does with its result
data_recv(c, size) ==
    {IF ret = 0 THEN Ret(Log(c, "xfer", c.cur_fd, <<0>>), AVERROR_EOF)
     ELSE Ret(Log([c EXCEPT !.pos = @ + ret, !.transferred = @ + ret], "xfer", c.cur_fd, <<ret>>), ret) :
        ret \in 0..size}
    \cup {LET c1 == Log([c EXCEPT !.errno = e], "xfer", c.cur_fd, <<-1>>)
          IN  Ret(c1, ff_neterrno(c1)) : e \in NetErrnos}

\* send(s->cur_fd, buf, size, MSG_NOSIGNAL) and what unix_y_write does with its result
data_send(c, size) ==
    {Ret(Log([c EXCEPT !.pos = @ + ret, !.transferred = @ + ret], "xfer", c.cur_fd, <<ret>>), ret) :
        ret \in 0..size}
    \cup {LET c1 == Log([c EXCEPT !.errno = e], "xfer", c.cur_fd, <<-1>>)
          IN  Ret(c1, ff_neterrno(c1)) : e \in NetErrnos}

\* unix_y_read without the test "s->cur_fd < 0"
unix_y_read_always_opens(c, size) ==
    IF c.reading_mode = 0 THEN {Ret(c, AVERROR(EPERM))}
    ELSE UNION {IF p.ret < 0 THEN {p} ELSE data_recv(p.c, size) : p \in open_data(c, S_read)}

\* unix_y_read without the test of reading_mode
unix_y_read_unchecked(c, size) ==
    UNION {IF p.ret < 0 THEN {p} ELSE data_recv(p.c, size) :
              p \in IF c.cur_fd < 0 THEN open_data(c, S_read) ELSE {Ret(c, 0)}}

\* unix_y_read(h, buf, size): every outcome
unix_y_read(c, size) ==
    IF c.reading_mode = 0 THEN {Ret(c, AVERROR(EPERM))}
    ELSE UNION {IF p.ret < 0 THEN {p} ELSE data_recv(p.c, size) :
                   p \in IF c.cur_fd < 0 THEN open_data(c, S_read) ELSE {Ret(c, 0)}}

\* unix_y_write whose command carries pos + 1
unix_y_write_announces_next(c, size) ==
    IF c.reading_mode # 0 THEN {Ret(c, AVERROR(EPERM))}
    ELSE UNION {IF p.ret < 0 THEN {p} ELSE data_send([p.c EXCEPT !.pos = c.pos], size) :
                   p \in IF c.cur_fd < 0 THEN open_data([c EXCEPT !.pos = @ + 1], S_write)
                                         ELSE {Ret(c, 0)}}

\* unix_y_write(h, buf, size): every outcome
unix_y_write(c, size) ==
    IF c.reading_mode # 0 THEN {Ret(c, AVERROR(EPERM))}
    ELSE UNION {IF p.ret < 0 THEN {p} ELSE data_send(p.c, size) :
                   p \in IF c.cur_fd < 0 THEN open_data(c, S_write) ELSE {Ret(c, 0)}}

\* unix_y_close that closes the control connection only
unix_y_close_control_only(c) == Ret(closesocket(c, c.control_fd), 0)

\* unix_y_close(h)
unix_y_close(c) ==
    LET c1 == IF c.cur_fd >= 0 THEN closesocket(c, c.cur_fd) ELSE c
    IN  Ret(closesocket(c1, c.control_fd), 0)

\* unix_y_get_file_handle(h)
unix_y_get_file_handle(c) == Ret(c, c.control_fd)

\* The block "if (whence == AVSEEK_SIZE || whence == SEEK_END) { ... }" of
\* unix_y_seek. done tells that seek returns ret from inside the block; otherwise
\* ret is the value of stat behind it. strtoll leaves errno alone when it converts
\* digits; when it converts none, the C library either leaves errno alone or sets
\* EINVAL (both are allowed), and a buffer filled without a NUL is read into
\* whatever lies behind it. seek_stat_reply is the block from the result r of
\* read_str_until on.
seek_stat_reply(r) ==
    IF r.ret < 0 THEN {[c |-> r.c, ret |-> AVERROR(r.c.errno), done |-> TRUE]}
    ELSE UNION {
      LET n == strtoll(CStr(r.out, b))
          after == {r.c} \cup (IF n.conv THEN {} ELSE {[r.c EXCEPT !.errno = EINVAL]})
      IN  IF n.big THEN {}
          ELSE {IF c2.errno = EINVAL THEN [c |-> c2, ret |-> AVERROR(c2.errno), done |-> TRUE]
                ELSE [c |-> c2, ret |-> n.val, done |-> FALSE] : c2 \in after} :
      b \in Beyond}

\* the whole block: the command "stat", then the reply
seek_stat(c) ==
    UNION {
      IF w.ret < 0 THEN {[c |-> w.c, ret |-> w.ret, done |-> TRUE]}
      ELSE UNION {seek_stat_reply(r) : r \in read_str_until_all(w.c, c.control_fd, LF, CmdBufSize)} :
      w \in write_str_all(c, c.control_fd, S_stat)}

\* the new position unix_y_seek computes
NewPos(c, off, whence, stat) ==
    CASE whence = "SEEK_SET" -> off
      [] whence = "SEEK_CUR" -> c.pos + off
      [] whence = "SEEK_END" -> stat + off

\* seek_move without the block that closes the data connection
seek_move_keeps_conn(c, off, whence, stat) ==
    IF whence \notin {"SEEK_SET", "SEEK_CUR", "SEEK_END"} THEN Ret(c, AVERROR(EINVAL))
    ELSE Ret([c EXCEPT !.pos = NewPos(c, off, whence, stat)], NewPos(c, off, whence, stat))

\* seek_move with SEEK_CUR computed as SEEK_SET
seek_move_cur_as_set(c, off, whence, stat) ==
    IF whence \notin {"SEEK_SET", "SEEK_CUR", "SEEK_END"} THEN Ret(c, AVERROR(EINVAL))
    ELSE LET newPos == IF whence = "SEEK_CUR" THEN off ELSE NewPos(c, off, whence, stat)
             c1 == IF c.cur_fd >= 0 /\ newPos # c.pos
                   THEN [closesocket(c, c.cur_fd) EXCEPT !.cur_fd = -1, !.announced = 0, !.transferred = 0]
                   ELSE c
         IN  Ret([c1 EXCEPT !.pos = newPos], newPos)

\* seek_move with the test "newPos == s->pos" in place of "newPos != s->pos"
seek_move_inverted(c, off, whence, stat) ==
    IF whence \notin {"SEEK_SET", "SEEK_CUR", "SEEK_END"} THEN Ret(c, AVERROR(EINVAL))
    ELSE LET newPos == NewPos(c, off, whence, stat)
             c1 == IF c.cur_fd >= 0 /\ newPos = c.pos
                   THEN [closesocket(c, c.cur_fd) EXCEPT !.cur_fd = -1, !.announced = 0, !.transferred = 0]
                   ELSE c
         IN  Ret([c1 EXCEPT !.pos = newPos], newPos)

\* The rest of unix_y_seek, from "int64_t newPos = -1;": stat is -1 unless the
\* stat block set it.
seek_move(c, off, whence, stat) ==
    IF whence \notin {"SEEK_SET", "SEEK_CUR", "SEEK_END"} THEN Ret(c, AVERROR(EINVAL))
    ELSE LET newPos == NewPos(c, off, whence, stat)
             c1 == IF c.cur_fd >= 0 /\ newPos # c.pos
                   THEN [closesocket(c, c.cur_fd) EXCEPT !.cur_fd = -1, !.announced = 0, !.transferred = 0]
                   ELSE c
         IN  Ret([c1 EXCEPT !.pos = newPos], newPos)

\* seek_with with "return stat" taken for SEEK_END in place of AVSEEK_SIZE
seek_with_wrong_return(off, whence, stats) ==
    {IF st.done \/ whence = "SEEK_END" THEN Ret(st.c, st.ret)
     ELSE seek_move(st.c, off, "SEEK_END", st.ret) : st \in stats}

\* unix_y_seek once the outcomes `stats` of the stat block are known
seek_with(off, whence, stats) ==
    {IF st.done \/ whence = "AVSEEK_SIZE" THEN Ret(st.c, st.ret)
     ELSE seek_move(st.c, off, whence, st.ret) : st \in stats}

\* unix_y_seek(h, pos, whence): every outcome
unix_y_seek(c, off, whence) ==
    IF whence \in {"AVSEEK_SIZE", "SEEK_END"} THEN seek_with(off, whence, seek_stat(c))
    ELSE {seek_move(c, off, whence, -1)}

\* ------------------------------------------------------ events of one call

Events(o, kind) == {i \in 1..Len(o.c.ev) : o.c.ev[i].ev = kind}

\* descriptors closed during the call
Closes(o) == Cardinality(Events(o, "close") \cup Events(o, "badclose"))

\* sockets created during the call
Sockets(o) == Cardinality({i \in Events(o, "socket") : o.c.ev[i].fd >= 0})

\* the bytes the call took from the control connection (<<>> when it took none)
Received(o) == IF Events(o, "recv") = {} THEN <<>>
               ELSE o.c.ev[CHOOSE i \in Events(o, "recv") : TRUE].data

\* the call read a whole line, and this is it (without its newline)
GotLine(o) == Received(o) # <<>> /\ Received(o)[Len(Received(o))] = LF

LineOf(o) == SubSeq(Received(o), 1, Len(Received(o)) - 1)

\* the call took CmdBufSize bytes from the control connection, none a newline
HitCap(o) ==
    /\ Len(Received(o)) = CmdBufSize
    /\ \A i \in 1..CmdBufSize : Received(o)[i] # LF

IsPrefix(p, q) == Len(p) <= Len(q) /\ SubSeq(q, 1, Len(p)) = p

\* what read, or write, does in the stream's direction
ReadOrWrite(c, size) == IF c.reading_mode # 0 THEN unix_y_read(c, size) ELSE unix_y_write(c, size)

\* ------------------------------------------------------------------ actions

Whences == {"SEEK_SET", "SEEK_CUR", "SEEK_END", "AVSEEK_SIZE", "OTHER"}

\* AVIO_FLAG_READ, AVIO_FLAG_WRITE, AVIO_FLAG_READ_WRITE
OpenFlags == {1, 2, 3}

\* The fields after a call that ended as o.
Assign(o) ==
    /\ timeout' = o.c.timeout
    /\ control_fd' = o.c.control_fd
    /\ cur_fd' = o.c.cur_fd
    /\ reading_mode' = o.c.reading_mode
    /\ session_id' = o.c.session_id
    /\ pos' = o.c.pos
    /\ session_id_inc' = o.c.session_id_inc
    /\ open_fds' = o.c.open_fds
    /\ errno' = o.c.errno
    /\ rx' = o.c.rx
    /\ announced' = o.c.announced
    /\ transferred' = o.c.transferred

\* The state after a call that ended as o.
Commit(o) ==
    /\ o.c.pos \in -MaxPos..MaxPos
    /\ Assign(o)
    /\ UNCHANGED <<thr, rt>>

Threads == {1, 2}

ThreadIdle == [pc |-> "idle", reading_mode |-> 0, session_id |-> 0, fd |-> -1,
               new_session_id |-> 0, sent |-> <<>>, ret |-> 0]

\* the caller of SpecRT before it starts
RtIdle == [role |-> "none", phase |-> "idle", p |-> 0, data |-> <<>>, left |-> <<>>,
           got |-> <<>>, store |-> <<>>, soff |-> 0, calls |-> 0]

\* A URLContext as the framework hands it to unix_y_open: priv_data zeroed, the
\* options at their defaults, no socket open.
InitStream ==
    /\ h_state = "Unopened"
    /\ timeout = -1
    /\ control_fd = 0
    /\ cur_fd = 0
    /\ reading_mode = 0
    /\ session_id = 0
    /\ pos = 0
    /\ session_id_inc = 0
    /\ open_fds = {}
    /\ errno = 0
    /\ rx = <<>>
    /\ announced = 0
    /\ transferred = 0
    /\ thr = [t \in Threads |-> ThreadIdle]

Init == InitStream /\ rt = RtIdle

\* The caller allocates a new URLContext after it closed the last one: priv_data
\* is zeroed and the options take their defaults. The process, and with it
\* session_id_inc, the descriptors and errno, goes on.
Zeroed ==
    /\ h_state' = "Unopened"
    /\ timeout' = -1
    /\ control_fd' = 0
    /\ cur_fd' = 0
    /\ reading_mode' = 0
    /\ session_id' = 0
    /\ pos' = 0
    /\ rx' = <<>>
    /\ announced' = 0
    /\ transferred' = 0
    /\ UNCHANGED <<session_id_inc, open_fds, errno, thr>>

Alloc == h_state = "Closed" /\ Zeroed /\ UNCHANGED rt

Open ==
    /\ h_state = "Unopened"
    /\ session_id_inc < MaxSessions
    /\ \E flags \in OpenFlags : \E o \in unix_y_open(Ctx, flags) :
          /\ Commit(o)
          /\ h_state' = IF o.ret = 0 THEN "Open" ELSE "Unopened"

Read ==
    /\ h_state = "Open"
    /\ \E size \in 1..MaxSize : \E o \in unix_y_read(Ctx, size) : Commit(o)
    /\ UNCHANGED h_state

Write ==
    /\ h_state = "Open"
    /\ \E size \in 1..MaxSize : \E o \in unix_y_write(Ctx, size) : Commit(o)
    /\ UNCHANGED h_state

Seek ==
    /\ h_state = "Open"
    /\ LET stats == seek_stat(Ctx)
       IN  \E off \in -MaxOff..MaxOff, whence \in Whences :
              \E o \in (IF whence \in {"AVSEEK_SIZE", "SEEK_END"}
                         THEN seek_with(off, whence, stats)
                         ELSE unix_y_seek(Ctx, off, whence)) : Commit(o)
    /\ UNCHANGED h_state

GetFileHandle ==
    /\ h_state = "Open"
    /\ Commit(unix_y_get_file_handle(Ctx))
    /\ UNCHANGED h_state

Close ==
    /\ h_state = "Open"
    /\ Commit(unix_y_close(Ctx))
    /\ h_state' = "Closed"

Next == Alloc \/ Open \/ Read \/ Write \/ Seek \/ GetFileHandle \/ Close

Spec == Init /\ [][Next]_vars

\* ------------------------------------------- two concurrent unix_y_open calls

\* Two threads, each with a URLContext of its own, run unix_y_open at the same
\* time. Each step below is one statement of unix_y_open / connectSocket that
\* touches state another thread can see (the descriptor table, session_id_inc);
\* thr[t] holds the thread's UnixYContext fields and the locals fd,
\* new_session_id and ret, sent the bytes of the new_session line it has sent.

Step(t, r) == thr' = [thr EXCEPT ![t] = r]

Frame2 == UNCHANGED <<h_state, timeout, control_fd, cur_fd, reading_mode, session_id, pos,
                      errno, rx, announced, transferred, rt>>

\* unix_y_open, lines 162-181: reading_mode, session_id = -1, call connectSocket
T_open(t) ==
    /\ thr[t].pc = "idle"
    /\ \E flags \in OpenFlags :
          Step(t, [thr[t] EXCEPT !.pc = "socket", !.reading_mode = FlagsAndRead(flags),
                                 !.session_id = -1])
    /\ UNCHANGED <<session_id_inc, open_fds>>
    /\ Frame2

\* ff_socket, lines 106-108
T_socket(t) ==
    /\ thr[t].pc = "socket"
    /\ \/ /\ Step(t, [thr[t] EXCEPT !.pc = "done", !.ret = AVERROR(EMFILE)])
          /\ UNCHANGED open_fds
       \/ /\ Step(t, [thr[t] EXCEPT !.pc = "connect", !.fd = LowestFree(open_fds)])
          /\ open_fds' = open_fds \cup {LowestFree(open_fds)}
    /\ UNCHANGED session_id_inc
    /\ Frame2

\* ff_listen_connect, lines 109-123; session_id is not > 0 in unix_y_open
T_connect(t) ==
    /\ thr[t].pc = "connect"
    /\ \/ /\ Step(t, [thr[t] EXCEPT !.pc = "done", !.ret = AVERROR(ECONNREFUSED)])
          /\ open_fds' = open_fds \ {thr[t].fd}
       \/ /\ ~(thr[t].session_id > 0)
          /\ Step(t, [thr[t] EXCEPT !.pc = "fetch_add"])
          /\ UNCHANGED open_fds
    /\ UNCHANGED session_id_inc
    /\ Frame2

\* atomic_fetch_add(&session_id_inc, 1), line 134
T_fetch_add(t) ==
    /\ thr[t].pc = "fetch_add"
    /\ session_id_inc' = session_id_inc + 1
    /\ Step(t, [thr[t] EXCEPT !.pc = "load"])
    /\ UNCHANGED open_fds
    /\ Frame2

\* int new_session_id = atomic_load(&session_id_inc), line 135
T_load(t) ==
    /\ thr[t].pc = "load"
    /\ Step(t, [thr[t] EXCEPT !.pc = "send", !.new_session_id = session_id_inc])
    /\ UNCHANGED <<session_id_inc, open_fds>>
    /\ Frame2

\* sprintf, write_str, s->session_id = new_session_id, return fd, lines 136-154,
\* and the rest of unix_y_open, lines 181-191
T_send(t) ==
    /\ thr[t].pc = "send"
    /\ LET cmd == NewSessionCmd(thr[t].reading_mode, thr[t].new_session_id)
       IN  \E sc \in SendScripts :
              LET w == write_loop(Len(cmd), sc, 0)
              IN  IF w.ret < 0
                  THEN /\ Step(t, [thr[t] EXCEPT !.pc = "done", !.ret = w.ret,
                                                 !.sent = SubSeq(cmd, 1, w.n)])
                       /\ open_fds' = open_fds \ {thr[t].fd}
                  ELSE /\ Step(t, [thr[t] EXCEPT !.pc = "done", !.ret = 0, !.sent = cmd,
                                                 !.session_id = thr[t].new_session_id])
                       /\ UNCHANGED open_fds
    /\ UNCHANGED session_id_inc
    /\ Frame2

NextOpen2 ==
    \E t \in Threads :
        T_open(t) \/ T_socket(t) \/ T_connect(t) \/ T_fetch_add(t) \/ T_load(t) \/ T_send(t)

SpecOpen2 == Init /\ [][NextOpen2]_vars

\* ------------------------------------------- round trip through a test double

\* A caller writes rt.data at offset rt.p through a stream opened for writing,
\* closes it, and reads the region back through a fresh stream opened for
\* reading. The peer is a test double: it accepts every connection and every
\* byte sent to it, answers "ok" to a read or write command and takes the offset
\* from the command line it received (rt.soff), stores the bytes that arrive on
\* a data connection at that offset onwards (rt.store, offsets counted from 0),
\* and delivers the stored bytes from that offset onwards, at least one per recv.

RtBytes == {"a", "b"}

RtStore0 == [i \in 1..(MaxRtOff + MaxRtLen + 1) |-> "_"]

RtStart ==
    {[RtIdle EXCEPT !.role = "writer", !.phase = "open", !.p = p, !.data = d, !.left = d,
                    !.store = RtStore0] :
        p \in 0..MaxRtOff, d \in UNION {[1..n -> RtBytes] : n \in 1..MaxRtLen}}

InitRT == InitStream /\ rt \in RtStart

\* the call went through with the test double as the peer
ServedByDouble(o) ==
    /\ o.ret >= 0
    /\ \A i \in Events(o, "recv") : o.c.ev[i].data = S_ok \o <<LF>>

\* the offset the double works at during the call: the one of the command the
\* call sent on the control connection, or the one it had
DoubleOffset(o, word) ==
    LET cmds == {i \in Events(o, "send") : o.c.ev[i].fd = control_fd}
    IN  IF cmds = {} THEN rt.soff ELSE OffsetOf(word, o.c.ev[CHOOSE i \in cmds : TRUE].data)

\* the store after bytes arrived at offset off
Stored(store, off, bytes) ==
    [i \in DOMAIN store |->
        IF i - 1 >= off /\ i - 1 < off + Len(bytes) THEN bytes[i - off] ELSE store[i]]

RT_Open ==
    /\ rt.phase = "open"
    /\ h_state = "Unopened"
    /\ \E flags \in (IF rt.role = "writer" THEN {2} ELSE {1, 3}) :
          \E o \in unix_y_open(Ctx, flags) :
              /\ ServedByDouble(o)
              /\ Assign(o)
    /\ h_state' = "Open"
    /\ rt' = [rt EXCEPT !.phase = "seek"]
    /\ UNCHANGED thr

RT_Seek ==
    /\ rt.phase = "seek"
    /\ \E o \in unix_y_seek(Ctx, rt.p, "SEEK_SET") : Assign(o)
    /\ rt' = [rt EXCEPT !.phase = "xfer"]
    /\ UNCHANGED <<h_state, thr>>

RT_Write ==
    /\ rt.phase = "xfer" /\ rt.role = "writer"
    /\ \E o \in unix_y_write(Ctx, Len(rt.left)) :
          /\ ServedByDouble(o) /\ o.ret >= 1
          /\ Assign(o)
          /\ LET off == DoubleOffset(o, S_write)
                 rest == SubSeq(rt.left, o.ret + 1, Len(rt.left))
             IN  rt' = [rt EXCEPT !.store = Stored(@, off, SubSeq(rt.left, 1, o.ret)),
                                  !.soff = off + o.ret,
                                  !.left = rest,
                                  !.calls = @ + 1,
                                  !.phase = IF rest = <<>> THEN "close" ELSE "xfer"]
    /\ UNCHANGED <<h_state, thr>>

RT_Read ==
    /\ rt.phase = "xfer" /\ rt.role = "reader"
    /\ \E o \in unix_y_read(Ctx, Len(rt.data) - Len(rt.got)) :
          /\ ServedByDouble(o) /\ o.ret >= 1
          /\ Assign(o)
          /\ LET off == DoubleOffset(o, S_read)
                 got == rt.got \o [i \in 1..o.ret |-> rt.store[off + i]]
             IN  rt' = [rt EXCEPT !.got = got,
                                  !.soff = off + o.ret,
                                  !.calls = @ + 1,
                                  !.phase = IF Len(got) = Len(rt.data) THEN "close" ELSE "xfer"]
    /\ UNCHANGED <<h_state, thr>>

RT_Close ==
    /\ rt.phase = "close"
    /\ Assign(unix_y_close(Ctx))
    /\ h_state' = "Closed"
    /\ rt' = IF rt.role = "writer" THEN [rt EXCEPT !.role = "reader", !.phase = "alloc"]
              ELSE [rt EXCEPT !.phase = "done"]
    /\ UNCHANGED thr

RT_Alloc ==
    /\ rt.phase = "alloc"
    /\ h_state = "Closed"
    /\ Zeroed
    /\ rt' = [rt EXCEPT !.phase = "open", !.soff = 0]

NextRT == RT_Open \/ RT_Seek \/ RT_Write \/ RT_Read \/ RT_Close \/ RT_Alloc

SpecRT == InitRT /\ [][NextRT]_vars

\* ==================================================================== claims

\* the thread's unix_y_open has returned 0
Opened2(t) == thr[t].pc = "done" /\ thr[t].ret = 0

\* C1: two streams whose unix_y_open calls run at the same time end up with
\* different session ids, and the new_session lines they sent carry different ids.
C1_DistinctSessionIds ==
    \A t1, t2 \in Threads :
        (t1 # t2 /\ Opened2(t1) /\ Opened2(t2)) =>
            /\ thr[t1].session_id # thr[t2].session_id
            /\ \A id \in 1..Cardinality(Threads) :
                  ~(/\ thr[t1].sent = NewSessionCmd(thr[t1].reading_mode, id)
                    /\ thr[t2].sent = NewSessionCmd(thr[t2].reading_mode, id))

\* ---------------------------------------------------------------------- C2

\* C2: whenever an opened stream has a data connection, the offset announced on
\* the control connection when the data connection was opened, plus the bytes
\* transferred on it since, equals pos.
C2_DataConnectionAtPos ==
    (h_state = "Open" /\ cur_fd >= 0) => announced + transferred = pos

\* a data connection opened at a nonzero offset that has carried bytes
C2_Witness ==
    h_state = "Open" /\ cur_fd >= 0 /\ announced # 0 /\ transferred > 0

\* ---------------------------------------------------------------------- C3

\* C3: when read or write has no data connection and the reply line to its
\* "read <offset>" / "write <offset>" command is anything other than exactly
\* "ok", the call fails with AVERROR(EINVAL), pos is unchanged and no data
\* connection is opened.
C3_NotOkFails ==
    (h_state = "Open" /\ cur_fd < 0) =>
        \A size \in 1..MaxSize : \A o \in ReadOrWrite(Ctx, size) :
            (GotLine(o) /\ LineOf(o) # S_ok) =>
                /\ o.ret = AVERROR(EINVAL)
                /\ o.c.pos = pos
                /\ o.c.cur_fd = cur_fd
                /\ Sockets(o) = 0

\* what C3 says, for the replies that hold no NUL byte
C3_NotOkFails_NoNul ==
    (h_state = "Open" /\ cur_fd < 0) =>
        \A size \in 1..MaxSize : \A o \in ReadOrWrite(Ctx, size) :
            (/\ GotLine(o) /\ LineOf(o) # S_ok
             /\ \A i \in 1..Len(LineOf(o)) : LineOf(o)[i] # NUL) =>
                /\ o.ret = AVERROR(EINVAL)
                /\ o.c.pos = pos
                /\ o.c.cur_fd = cur_fd
                /\ Sockets(o) = 0

\* ---------------------------------------------------------------------- C4

\* C4: seek with whence AVSEEK_SIZE, for any offset and any stat reply or stat
\* failure, leaves pos unchanged and neither opens nor closes a connection.
C4_SizeIsFrame ==
    h_state = "Open" =>
        \A off \in -MaxOff..MaxOff : \A o \in unix_y_seek(Ctx, off, "AVSEEK_SIZE") :
            /\ o.c.pos = pos
            /\ o.c.cur_fd = cur_fd
            /\ o.c.open_fds = open_fds
            /\ Sockets(o) = 0
            /\ Closes(o) = 0

\* a stream away from offset 0 with a data connection, on which AVSEEK_SIZE
\* returns a size in one outcome and fails in another
C4_Witness ==
    /\ h_state = "Open" /\ cur_fd >= 0 /\ pos # 0
    /\ \E o \in unix_y_seek(Ctx, 1, "AVSEEK_SIZE") : o.ret = 2 /\ o.c.pos = pos
    /\ \E o \in unix_y_seek(Ctx, 1, "AVSEEK_SIZE") : o.ret < 0

\* ---------------------------------------------------------------------- C5

\* C5: seek(0, SEEK_CUR) on an opened stream returns pos, leaves pos unchanged
\* and does not close an open data connection.
C5_SeekCurZero ==
    h_state = "Open" =>
        \A o \in unix_y_seek(Ctx, 0, "SEEK_CUR") :
            /\ o.ret = pos
            /\ o.c.pos = pos
            /\ o.c.cur_fd = cur_fd
            /\ o.c.open_fds = open_fds
            /\ Closes(o) = 0

\* a stream away from offset 0 whose data connection seek(0, SEEK_CUR) keeps
C5_Witness ==
    /\ h_state = "Open" /\ cur_fd >= 0 /\ pos # 0
    /\ \E o \in unix_y_seek(Ctx, 0, "SEEK_CUR") : o.ret = pos /\ o.c.cur_fd = cur_fd

\* ---------------------------------------------------------------------- C6

\* the context a call that ended as o leaves to the next call
After(o) == [o.c EXCEPT !.ev = <<>>]

\* C6: two calls seek(x, SEEK_SET) in a row close the data connection at most
\* once in total: the second closes nothing and returns x.
C6_SecondSeekSetIsNoop ==
    h_state = "Open" =>
        \A x \in -MaxOff..MaxOff :
            \A o1 \in unix_y_seek(Ctx, x, "SEEK_SET") :
                \A o2 \in unix_y_seek(After(o1), x, "SEEK_SET") :
                    /\ Closes(o1) + Closes(o2) <= 1
                    /\ Closes(o2) = 0
                    /\ o2.c.cur_fd = o1.c.cur_fd
                    /\ o2.ret = x

\* a stream with a data connection that the first of the two seeks closes
C6_Witness ==
    /\ h_state = "Open" /\ cur_fd >= 0
    /\ \E x \in -MaxOff..MaxOff :
          \E o1 \in unix_y_seek(Ctx, x, "SEEK_SET") :
              /\ Closes(o1) = 1
              /\ \E o2 \in unix_y_seek(After(o1), x, "SEEK_SET") : o2.ret = x /\ Closes(o2) = 0

\* ---------------------------------------------------------------------- C7

\* every call the caller can make on an opened stream, with its outcomes
CallsOnOpen(c) ==
    UNION {unix_y_read(c, size) \cup unix_y_write(c, size) : size \in 1..MaxSize}
    \cup UNION {unix_y_seek(c, off, whence) : off \in -MaxOff..MaxOff, whence \in Whences}
    \cup {unix_y_get_file_handle(c)}

\* C7: once open has succeeded the session id is positive and no later call
\* changes it; every negotiation on a later connection sends "run_session <id>"
\* with that id (all of it when the connection is kept) and never new_session.
C7_SessionIdFixed ==
    h_state = "Open" =>
        /\ session_id > 0
        /\ \A o \in CallsOnOpen(Ctx) :
              /\ o.c.session_id = session_id
              /\ o.c.session_id_inc = session_id_inc
              /\ \A i \in Events(o, "send") :
                    o.c.ev[i].fd # control_fd =>
                        /\ IsPrefix(o.c.ev[i].data, RunSessionCmd(session_id))
                        /\ (cur_fd < 0 /\ o.c.cur_fd >= 0) =>
                               o.c.ev[i].data = RunSessionCmd(session_id)

\* the second session of the process, after a data connection was negotiated
C7_Witness ==
    /\ h_state = "Open" /\ session_id = 2 /\ cur_fd >= 0 /\ transferred > 0

\* ---------------------------------------------------------------------- C8

\* C8: seek with whence SEEK_END fails with AVERROR(EINVAL) whenever the size
\* from the stat step is negative: it returns the error, does not set pos to
\* size + offset and does not drop the data connection.
C8_NegativeStatFails ==
    h_state = "Open" =>
        \A off \in -MaxOff..MaxOff : \A st \in seek_stat(Ctx) :
            (~st.done /\ st.ret < 0) =>
                LET o == seek_move(st.c, off, "SEEK_END", st.ret)
                IN  /\ o.ret = AVERROR(EINVAL)
                    /\ o.c.pos = pos
                    /\ o.c.cur_fd = cur_fd

\* ---------------------------------------------------------------------- C9

\* C9: when a reply reaches the 50-byte cap without a newline, read_str_until
\* reports an error (a negative result), and the seek that waited for the reply
\* fails instead of using the 50 bytes as the reply.
C9_CapIsError ==
    h_state = "Open" =>
        /\ \A r \in read_str_until_all(Ctx, control_fd, LF, CmdBufSize) :
              HitCap(r) => r.ret < 0
        /\ \A st \in seek_stat(Ctx) : HitCap(st) => (st.done /\ st.ret < 0)

\* --------------------------------------------------------------------- C10

\* the line holds no number strtoll can convert
Unparseable(line) == ~strtoll(CStr(line, <<NUL>>)).conv

\* C10: seek with whence SEEK_END or AVSEEK_SIZE fails with AVERROR(EINVAL)
\* whenever the stat reply line is no base-10 number; it never goes on with a
\* size taken from such a reply.
C10_UnparseableStatFails ==
    h_state = "Open" =>
        \A st \in seek_stat(Ctx) :
            (GotLine(st) /\ Unparseable(LineOf(st))) =>
                (st.done /\ st.ret = AVERROR(EINVAL))

\* --------------------------------------------------------------------- C11

\* C11: when the control connection closes while seek (SEEK_END or AVSEEK_SIZE)
\* reads the stat reply, seek returns the AVERROR_EOF that read_str_until
\* produced, a negative value, and leaves pos and the data connection as they were.
C11_StatEofSurfaced ==
    h_state = "Open" =>
        \A w \in write_str_all(Ctx, control_fd, S_stat) :
            w.ret >= 0 =>
                \A r \in read_str_until_all(w.c, control_fd, LF, CmdBufSize) :
                    r.ret = AVERROR_EOF =>
                        \A whence \in {"SEEK_END", "AVSEEK_SIZE"} :
                            \A o \in seek_with(0, whence, seek_stat_reply(r)) :
                                /\ o.ret = AVERROR_EOF
                                /\ o.ret < 0
                                /\ o.c.pos = pos
                                /\ o.c.cur_fd = cur_fd

\* --------------------------------------------------------------------- C12

\* the call sent (part of) a new_session line and failed
NewSessionSendFailed(o) ==
    /\ o.ret < 0
    /\ \E i \in Events(o, "send") :
          \E rm \in {0, 1} : \E id \in 1..MaxSessions :
              /\ IsPrefix(o.c.ev[i].data, NewSessionCmd(rm, id))
              /\ o.c.ev[i].data # NewSessionCmd(rm, id)

\* C12: when a negotiation without a session id fails to send its new_session
\* line, the new connection is closed, the error is returned, and the id just
\* taken from session_id_inc is the stream's session id afterwards.
C12_FailedNewSessionKeepsId ==
    h_state = "Unopened" =>
        \A flags \in OpenFlags : \A o \in unix_y_open(Ctx, flags) :
            NewSessionSendFailed(o) =>
                /\ Closes(o) = 1
                /\ o.c.open_fds = open_fds
                /\ o.c.session_id = o.c.session_id_inc
                /\ o.c.session_id > 0

\* --------------------------------------------------------------------- C13

\* C13: read on a stream opened for writing, and write on a stream opened for
\* reading, fail with AVERROR(EPERM), produce no event on any connection and
\* change no field; no call on an opened stream changes reading_mode.
C13_WrongDirectionFails ==
    h_state = "Open" =>
        /\ \A size \in 1..MaxSize :
              \A o \in (IF reading_mode # 0 THEN unix_y_write(Ctx, size) ELSE unix_y_read(Ctx, size)) :
                  /\ o.ret = AVERROR(EPERM)
                  /\ o.c = Ctx
        /\ \A o \in CallsOnOpen(Ctx) : o.c.reading_mode = reading_mode

\* a stream opened for writing, away from offset 0 and without a data connection:
\* read fails where write would open the data connection
C13_Witness ==
    /\ h_state = "Open" /\ reading_mode = 0 /\ cur_fd < 0 /\ pos # 0
    /\ \E o \in unix_y_read(Ctx, 1) : o.ret = AVERROR(EPERM)
    /\ \E o \in unix_y_write(Ctx, 1) : o.ret = 1 /\ o.c.cur_fd >= 0

\* --------------------------------------------------------------------- C14

\* C14: the position of an opened stream is never negative, whatever open, read,
\* write and seek calls were made.
C14_PosNonNegative == h_state = "Open" => pos >= 0

\* --------------------------------------------------------------------- C15

\* the sockets the stream holds
Held == {control_fd} \cup (IF cur_fd >= 0 THEN {cur_fd} ELSE {})

\* C15: the sockets that are open are those the opened stream holds, the control
\* connection and the data connection if there is one; no call closes a
\* descriptor that is not open, a failed open leaves no socket behind, and
\* unix_y_close closes each socket the stream holds once, after which none is open.
C15_SocketsReleasedOnce ==
    /\ h_state = "Open" =>
          /\ open_fds = Held
          /\ cur_fd # control_fd
          /\ \A o \in CallsOnOpen(Ctx) \cup {unix_y_close(Ctx)} : Events(o, "badclose") = {}
          /\ LET o == unix_y_close(Ctx)
             IN  /\ o.c.open_fds = {}
                 /\ Closes(o) = Cardinality(Held)
                 /\ {o.c.ev[i].fd : i \in Events(o, "close")} = Held
    /\ h_state # "Open" =>
          /\ open_fds = {}
          /\ h_state = "Unopened" =>
                \A flags \in OpenFlags : \A o \in unix_y_open(Ctx, flags) :
                    /\ Events(o, "badclose") = {}
                    /\ o.ret < 0 => o.c.open_fds = {}

\* a stream with a data connection, after a call on it failed in send or recv,
\* that unix_y_close releases
C15_Witness ==
    /\ h_state = "Open" /\ cur_fd >= 0 /\ errno \in NetErrnos
    /\ Closes(unix_y_close(Ctx)) = 2
    /\ unix_y_close(Ctx).c.open_fds = {}

\* --------------------------------------------------------------------- C16

\* C16: when the caller has written rt.data at offset rt.p through a stream
\* opened for writing (calling write again after a short write) and has read as
\* many bytes at offset rt.p through a fresh stream opened for reading (calling
\* read again after a short read), the bytes read are the bytes written.
C16_RoundTrip == rt.phase = "done" => rt.got = rt.data

\* a round trip of two different bytes away from offset 0, with a short write
\* and a short read
C16_Witness ==
    /\ rt.phase = "done" /\ rt.p > 0 /\ rt.calls = 4
    /\ rt.data = <<"a", "b">> /\ rt.got = <<"a", "b">>

\* --------------------------------------------------------------------- C17

\* events of the call on the control connection the stream had when it began
OnControl(o, kind) == {i \in Events(o, kind) : o.c.ev[i].fd = control_fd}

\* every outcome of read and of write, with the word of its command
ReadsAndWrites(c) ==
    UNION {{[o |-> o, word |-> S_read] : o \in unix_y_read(c, size)}
           \cup {[o |-> o, word |-> S_write] : o \in unix_y_write(c, size)} : size \in 1..MaxSize}

\* every outcome of seek
Seeks(c) == UNION {unix_y_seek(c, off, whence) : off \in -MaxOff..MaxOff, whence \in Whences}

\* C17: a socket for a data connection is created only by read or write, and only
\* after that same call has sent the whole command "<read|write> <pos>" with the
\* current pos on the control connection and has then received the reply line
\* "ok"; seek and close create no socket.
C17_DataConnectionAfterOk ==
    h_state = "Open" =>
        /\ \A o \in Seeks(Ctx) \cup {unix_y_close(Ctx)} : Events(o, "socket") = {}
        /\ \A x \in ReadsAndWrites(Ctx) :
              \A i \in Events(x.o, "socket") :
                  \E j \in OnControl(x.o, "send") : \E k \in OnControl(x.o, "recv") :
                      /\ j < k /\ k < i
                      /\ x.o.c.ev[j].data = OffsetCmd(x.word, pos)
                      /\ x.o.c.ev[k].data = S_ok \o <<LF>>

\* what C17 says of the order of the steps, whatever the bytes of the reply
C17_DataConnectionAfterReply ==
    h_state = "Open" =>
        /\ \A o \in Seeks(Ctx) \cup {unix_y_close(Ctx)} : Events(o, "socket") = {}
        /\ \A x \in ReadsAndWrites(Ctx) :
              \A i \in Events(x.o, "socket") :
                  \E j \in OnControl(x.o, "send") : \E k \in OnControl(x.o, "recv") :
                      /\ j < k /\ k < i
                      /\ x.o.c.ev[j].data = OffsetCmd(x.word, pos)
                      /\ IsPrefix(S_ok, x.o.c.ev[k].data)

\* --------------------------------------------------------------------- C18

\* C18: while the stream has a data connection, read and write send and receive
\* nothing on the control connection, create no socket and keep the data
\* connection; the only call after which it is gone is a seek that changed pos,
\* which closed it; and a call creates a socket only when there is no data
\* connection, one at most.
C18_DataConnectionReused ==
    h_state = "Open" =>
        /\ cur_fd >= 0 =>
              /\ \A x \in ReadsAndWrites(Ctx) :
                    /\ \A i \in 1..Len(x.o.c.ev) :
                          x.o.c.ev[i].ev = "xfer" /\ x.o.c.ev[i].fd = cur_fd
                    /\ x.o.c.cur_fd = cur_fd
                    /\ x.o.c.open_fds = open_fds
              /\ \A o \in Seeks(Ctx) :
                    o.c.cur_fd # cur_fd =>
                        /\ o.c.cur_fd = -1
                        /\ o.c.pos # pos
                        /\ {o.c.ev[i].fd : i \in Events(o, "close")} = {cur_fd}
        /\ \A o \in CallsOnOpen(Ctx) :
              /\ Cardinality(Events(o, "socket")) <= 1
              /\ Events(o, "socket") # {} => cur_fd < 0

\* a data connection that has carried bytes, which a read would use again and a
\* seek to another offset would drop
C18_Witness ==
    /\ h_state = "Open" /\ cur_fd >= 0 /\ transferred > 0 /\ reading_mode # 0
    /\ \E o \in unix_y_read(Ctx, 1) : o.ret = 1 /\ o.c.cur_fd = cur_fd /\ Len(o.c.ev) = 1
    /\ \E o \in Seeks(Ctx) : o.c.cur_fd = -1 /\ o.c.pos # pos

\* --------------------------------------------------------------------- C19

\* the call left the data connection open, and the next read uses it
KeptForNextRead(o) ==
    /\ o.c.cur_fd >= 0
    /\ o.c.cur_fd \in o.c.open_fds
    /\ cur_fd >= 0 => o.c.cur_fd = cur_fd
    /\ \A o2 \in unix_y_read(After(o), 1) :
          \A i \in 1..Len(o2.c.ev) : o2.c.ev[i].ev = "xfer" /\ o2.c.ev[i].fd = o.c.cur_fd

\* C19: unix_y_read receives at most once on the data connection, exactly once
\* when it has one; when n > 0 bytes arrive it returns n and pos grows by n; when
\* none arrives it returns AVERROR_EOF; when recv fails it returns the negated
\* errno of the socket; in the last two cases pos is unchanged and the data
\* connection stays open for the next read.
C19_ReadIsOneRecv ==
    (h_state = "Open" /\ reading_mode # 0) =>
        \A size \in 1..MaxSize : \A o \in unix_y_read(Ctx, size) :
            /\ Cardinality(Events(o, "xfer")) <= 1
            /\ cur_fd >= 0 => Cardinality(Events(o, "xfer")) = 1
            /\ \A i \in Events(o, "xfer") :
                  LET n == o.c.ev[i].data[1]
                  IN  /\ o.c.ev[i].fd = o.c.cur_fd
                      /\ n <= size
                      /\ n > 0 => o.ret = n /\ o.c.pos = pos + n
                      /\ n = 0 => o.ret = AVERROR_EOF /\ o.c.pos = pos /\ KeptForNextRead(o)
                      /\ n < 0 => /\ o.c.errno \in NetErrnos
                                  /\ o.ret = AVERROR(o.c.errno)
                                  /\ o.c.pos = pos
                                  /\ KeptForNextRead(o)

\* a reading stream away from offset 0 whose read has all three results
C19_Witness ==
    /\ h_state = "Open" /\ reading_mode # 0 /\ cur_fd >= 0 /\ pos > 0
    /\ \E o \in unix_y_read(Ctx, MaxSize) : o.ret = MaxSize /\ o.c.pos = pos + MaxSize
    /\ \E o \in unix_y_read(Ctx, MaxSize) : o.ret = AVERROR_EOF /\ o.c.cur_fd = cur_fd
    /\ \E o \in unix_y_read(Ctx, MaxSize) : o.ret = AVERROR(ECONNRESET) /\ o.c.cur_fd = cur_fd

\* --------------------------------------------------------------------- C20

\* one line of at most CmdBufSize - 1 bytes and its newline
WellFormedReply(b) ==
    /\ b # <<>> /\ Len(b) <= CmdBufSize
    /\ b[Len(b)] = LF
    /\ \A i \in 1..(Len(b) - 1) : b[i] # LF

\* C20: a call that begins with nothing unread on the control connection sends
\* at most one command there, before it reads the reply, and when the reply is
\* one newline-terminated line of at most 49 bytes the call leaves nothing of it
\* unread; so with a server that answers in such lines no command of a later
\* read, write or seek is sent while bytes of an earlier reply are unread.
C20_RequestReplyAlternate ==
    (h_state = "Open" /\ rx = <<>>) =>
        \A o \in CallsOnOpen(Ctx) :
            /\ Cardinality(OnControl(o, "send")) <= 1
            /\ Cardinality(OnControl(o, "recv")) <= 1
            /\ \A i \in OnControl(o, "send") : \A j \in OnControl(o, "recv") : i < j
            /\ OnControl(o, "recv") = {} => o.c.rx = <<>>
            /\ \A j \in OnControl(o, "recv") :
                  WellFormedReply(o.c.ev[j].data \o o.c.rx) => o.c.rx = <<>>

\* a stream that has had failures and successes, on which a stat reply of 49
\* bytes and a newline is read to its end
C20_Witness ==
    /\ h_state = "Open" /\ rx = <<>> /\ pos # 0 /\ cur_fd >= 0
    /\ \E o \in unix_y_seek(Ctx, 0, "AVSEEK_SIZE") :
          /\ Len(Received(o)) = CmdBufSize /\ GotLine(o)
          /\ o.c.rx = <<>>

====
